---- MODULE Spec2Model ----
(***************************************************************************)
(* Model of src/src/cache.js: a time-based key/value cache (store.js       *)
(* engine + memoryStorage + expire plugin) with an observation layer and   *)
(* the observeData fetch-or-cache orchestrator.                            *)
(*                                                                         *)
(* JavaScript values are tagged records, so that the coercions the code    *)
(* relies on (truthiness, Math.max on null/undefined, JSON round trips,    *)
(* <= on null) are computed the way the runtime computes them.             *)
(***************************************************************************)
EXTENDS Integers, Sequences, FiniteSets, TLC

\* ------------------------------------------------------------------ bounds
MaxTicks == 3      \* the clock advances at most this many seconds
MaxCalls == 2      \* observeData invocations
MaxSets == 2       \* direct set() calls
MaxAgeSeconds == 2 \* largest maxAge (seconds) passed by a caller
MaxFetchOps == 3   \* calls, sets and ticks begun in a run without polling
MaxPollOps == 5    \* calls, sets and ticks begun in a run with polling
MaxPollCalls == 1  \* observeData invocations that poll
MaxCustomOps == 3  \* calls and sets begun in a run with self-caching producers

\* ------------------------------------------------------- program constants
SECOND == 1000

\* defaultConfig = { maxAge: 1 }
defaultConfigMaxAge == 1

\* ------------------------------------------------------------ JS values
Undef == [t |-> "undefined"]
Null == [t |-> "null"]
NaN == [t |-> "NaN"]
Num(n) == [t |-> "number", n |-> n]
Obj(r) == [t |-> "object", results |-> r]

\* Number.MAX_VALUE, the default the expire plugin reads for a key that has
\* no expiration: larger than every timestamp of the model.
NumberMaxValue == Num((MaxTicks + MaxAgeSeconds + 8) * SECOND)

\* ToBoolean
Truthy(v) ==
  CASE v.t = "object" -> TRUE
    [] v.t = "number" -> v.n # 0
    [] OTHER -> FALSE

\* ToNumber: null is 0, undefined is NaN
ToNumber(v) ==
  CASE v.t = "number" -> v
    [] v.t = "null" -> Num(0)
    [] OTHER -> NaN

\* Math.max(a, b): NaN when either argument converts to NaN
MathMax(a, b) ==
  LET x == ToNumber(a)
      y == ToNumber(b)
  IN IF x = NaN \/ y = NaN THEN NaN
     ELSE IF x.n >= y.n THEN x ELSE y

\* a <= b on numbers after ToNumber; any comparison with NaN is false
JsLeq(a, b) ==
  LET x == ToNumber(a)
      y == ToNumber(b)
  IN IF x = NaN \/ y = NaN THEN FALSE ELSE x.n <= y.n

\* JSON.parse(JSON.stringify(v)): NaN is written as "null" and read as null
JsonRoundTrip(v) == IF v = NaN THEN Null ELSE v

\* --------------------------------------------------------------- domains
KeyNames == {"apples", ""}
defaultKeyOf(keyName) == "withData__" \o keyName
CustomKey == "custom"
Keys == {defaultKeyOf(k) : k \in KeyNames} \cup {CustomKey}
Payloads == {Obj("fuji"), Obj("gala")}
\* maxAge arguments of set(): unset, null, or a number of seconds
MaxAges == {Undef, Null} \cup {Num(n) : n \in 1..MaxAgeSeconds}

VARIABLES
  now,      \* new Date().getTime(), in ms
  store,    \* memoryStorage: [data: main namespace, exp: expire_mixin namespace]
  subs,     \* the observation registry: subs[id] = [key, owner, live]
  calls,    \* the observeData invocations, in call order
  fired,    \* the registrations the most recent write invoked, in order
  lastSet,  \* the most recent direct set() whose key was not rewritten since
  nSets,    \* direct set() calls so far
  released, \* the issued handles that were passed to unobserveData
  warned,   \* console.warn was called
  uncaught, \* an exception escaped an exported function
  swept,    \* the most recent removeExpiredKeys: the keys it removed and kept
  lastFetch \* the most recent producer resolution: whose, with what, to which key

vars == <<now, store, subs, calls, fired, lastSet, nSets, released, warned, uncaught,
          swept, lastFetch>>

\* ------------------------------------------------- store.js (engine, expire)
EmptyStore == [data |-> [k \in Keys |-> Undef], exp |-> [k \in Keys |-> Undef]]

\* store-engine _deserialize(strVal, defaultVal)
Deserialize(strVal, defaultVal) == IF strVal = Undef THEN defaultVal ELSE strVal

\* store-engine set(key, value): undefined removes, anything else is written
\* serialised
EngineWrite(ns, key, value) ==
  IF value = Undef THEN [ns EXCEPT ![key] = Undef]
  ELSE [ns EXCEPT ![key] = JsonRoundTrip(value)]

\* an expire plugin that never finds a key expired
CheckExpirationNever(st, key, t) == st

\* expire plugin _checkExpiration(key)
CheckExpiration(st, key, t) ==
  LET expiration == Deserialize(st.exp[key], NumberMaxValue)
  IN IF JsLeq(expiration, Num(t))
     THEN [data |-> [st.data EXCEPT ![key] = Undef],
           exp |-> [st.exp EXCEPT ![key] = Undef]]
     ELSE st

\* store.get(key): expire_get, then the engine's read
StoreGet(st, key, t) ==
  LET s2 == CheckExpiration(st, key, t)
  IN [st |-> s2, val |-> Deserialize(s2.data[key], Undef)]

\* store.getExpiration(key)
StoreGetExpiration(st, key) == Deserialize(st.exp[key], Undef)

\* store.set(key, value, expiration): expire_set, then the engine's write
StoreSet(st, key, value, expiration) ==
  [data |-> EngineWrite(st.data, key, value),
   exp |-> EngineWrite(st.exp, key, expiration)]

\* store.remove(key)
StoreRemove(st, key) ==
  [data |-> [st.data EXCEPT ![key] = Undef],
   exp |-> [st.exp EXCEPT ![key] = Undef]]

\* ------------------------------------------------------------- cache.js
\* set() with the extend-only maximum left out: the new expiration always wins
CacheSetStoreNoMax(st, cacheKey, value, maxAge, t) ==
  LET userMaxAgeOrDefault == IF Truthy(maxAge) THEN maxAge ELSE Num(defaultConfigMaxAge)
      g == StoreGet(st, cacheKey, t)
      existingExpiration == IF Truthy(g.val) THEN StoreGetExpiration(g.st, cacheKey) ELSE Null
      expiresAt == Num(t + userMaxAgeOrDefault.n * SECOND)
  IN IF ~Truthy(existingExpiration) /\ maxAge = Null
     THEN StoreSet(g.st, cacheKey, value, Undef)
     ELSE StoreSet(g.st, cacheKey, value, expiresAt)

\* set() that leaves a live entry as it is: the first writer wins
CacheSetStoreKeepFirst(st, cacheKey, value, maxAge, t) ==
  LET g == StoreGet(st, cacheKey, t)
  IN IF Truthy(g.val) THEN g.st
     ELSE StoreSet(g.st, cacheKey, value, Num(t + defaultConfigMaxAge * SECOND))

\* set(cacheKey, value, maxAge): the store after the write
CacheSetStore(st, cacheKey, value, maxAge, t) ==
  LET userMaxAgeOrDefault == IF Truthy(maxAge) THEN maxAge ELSE Num(defaultConfigMaxAge)
      g == StoreGet(st, cacheKey, t)
      existingExpiration == IF Truthy(g.val) THEN StoreGetExpiration(g.st, cacheKey) ELSE Null
      newExpiration == Num(t + userMaxAgeOrDefault.n * SECOND)
      expiresAt == MathMax(existingExpiration, newExpiration)
  IN IF ~Truthy(existingExpiration) /\ maxAge = Null
     THEN StoreSet(g.st, cacheKey, value, Undef)
     ELSE StoreSet(g.st, cacheKey, value, expiresAt)

\* getSync(cacheKey): result && { ...result, __cacheKey, __fromCache: true }
GetSyncResult(st, cacheKey, t) ==
  LET result == StoreGet(st, cacheKey, t).val
  IN IF Truthy(result)
     THEN [__cacheKey |-> cacheKey, __fromCache |-> TRUE] @@ result
     ELSE result

\* how the key stands before a call: absent, expired but not swept, live with
\* a finite expiration, live with no expiration
KeyState(st, key, t) ==
  IF st.data[key] = Undef THEN "absent"
  ELSE IF StoreGet(st, key, t).val = Undef THEN "expired"
  ELSE IF st.exp[key] = Undef THEN "forever"
  ELSE "finite"

\* removeExpiredKeys(): store.each over the entries, removing those whose
\* expiration is truthy and <= now
RECURSIVE SweepKeys(_, _, _)
SweepKeys(st, ks, t) ==
  IF ks = {} THEN st
  ELSE LET cacheKey == CHOOSE k \in ks : TRUE
           expiresAt == StoreGetExpiration(st, cacheKey)
           s2 == IF st.data[cacheKey] # Undef /\ Truthy(expiresAt) /\ JsLeq(expiresAt, Num(t))
                 THEN StoreRemove(st, cacheKey)
                 ELSE st
       IN SweepKeys(s2, ks \ {cacheKey}, t)

\* the sweep with a strict comparison: expiresAt < now
RemoveExpiredKeysStrict(st, t) == SweepKeys(st, Keys, t - 1)

RemoveExpiredKeysStore(st, t) == SweepKeys(st, Keys, t)

\* ------------------------------------------------ observePlugin (registry)
\* store.observe(key, callback): a new registration, its id the handle
PluginObserve(sb, key, owner) == Append(sb, [key |-> key, owner |-> owner, live |-> TRUE])

IsLive(sb, id) == id \in 1..Len(sb) /\ sb[id].live

\* store.unobserve(id): raises on a handle that is unknown or already removed
PluginUnobserve(sb, id) ==
  IF IsLive(sb, id)
  THEN [threw |-> FALSE, subs |-> [sb EXCEPT ![id].live = FALSE]]
  ELSE [threw |-> TRUE, subs |-> sb]

\* the live registrations on key, in registration order
RECURSIVE LiveFrom(_, _, _)
LiveFrom(sb, key, i) ==
  IF i > Len(sb) THEN <<>>
  ELSE IF sb[i].live /\ sb[i].key = key
       THEN <<i>> \o LiveFrom(sb, key, i + 1)
       ELSE LiveFrom(sb, key, i + 1)

LiveOn(sb, key) == LiveFrom(sb, key, 1)

\* ----------------------------------------------------- cache.js observeData
\* What a caller's onNext has been invoked with, summarised: how often, how
\* often from the cache ("cache"), from fetchFreshData ("fetch") and from the
\* observation ("observe"), and the latest payload with where it came from.
NotInvoked == [count |-> 0, observe |-> 0, fetch |-> 0, last |-> Undef, lastVia |-> "none"]

\* onNext(data), invoked from `via`
Invoke(log, data, via) ==
  [count |-> log.count + 1,
   observe |-> log.observe + (IF via = "observe" THEN 1 ELSE 0),
   fetch |-> log.fetch + (IF via = "fetch" THEN 1 ELSE 0),
   last |-> data,
   lastVia |-> via]

\* the callback with its test inverted: only undefined would be forwarded
ObserveCallbackInverted(log, data) ==
  IF data = Undef THEN Invoke(log, data, "observe") ELSE log

\* the callback observeKey registers: data => { if (data !== undefined) onNext(data) }
ObserveCallback(log, data) ==
  IF data # Undef THEN Invoke(log, data, "observe") ELSE log

\* a write to key: every live registration's callback runs, in order
RECURSIVE FireAll(_, _, _, _)
FireAll(cs, sb, ids, data) ==
  IF ids = <<>> THEN cs
  ELSE LET c == sb[Head(ids)].owner
       IN FireAll([cs EXCEPT ![c].onNext = ObserveCallback(cs[c].onNext, data)],
                  sb, Tail(ids), data)

\* const { maxAge, noCache, pollInterval } = { ...defaultConfig, ...options }
OptionMaxAge(options) ==
  IF options.maxAge = Undef THEN Num(defaultConfigMaxAge) ELSE options.maxAge

\* what a producer resolves with: a payload, optionally carrying __cacheKey
\* and __fromCache
Responses ==
  Payloads
  \cup {[__fromCache |-> TRUE] @@ p : p \in Payloads}
  \cup {[__cacheKey |-> CustomKey] @@ p : p \in Payloads}
  \cup {[__cacheKey |-> CustomKey, __fromCache |-> TRUE] @@ p : p \in Payloads}

Errors == {"network"}

\* ({ __cacheKey, __fromCache, ...data }) => ...
RestData(resp) == [f \in DOMAIN resp \ {"__cacheKey", "__fromCache"} |-> resp[f]]

\* const key = __cacheKey || defaultKey
ResolvedKey(resp, defaultKey) ==
  IF "__cacheKey" \in DOMAIN resp /\ resp.__cacheKey # "" THEN resp.__cacheKey ELSE defaultKey

\* a then-handler that does not look at __fromCache
RespFromCacheIgnored(resp) == FALSE

RespFromCache(resp) == "__fromCache" \in DOMAIN resp /\ resp.__fromCache

NoSet == [op |-> "none"]
NoSweep == [op |-> "none"]
NoFetch == [op |-> "none"]

\* a write by someone else to the key of the recorded set() ends the record
KeepLastSet(ls, key) == IF ls.op = "set" /\ ls.key = key THEN NoSet ELSE ls

PollIntervals == {0, 1}   \* options.pollInterval: 0 stands for "not given"
OptionSets ==
  [maxAge : {Undef}, noCache : BOOLEAN, pollInterval : PollIntervals]

Init ==
  /\ now = 0
  /\ store = EmptyStore
  /\ subs = <<>>
  /\ calls = <<>>
  /\ fired = [key |-> "", ids |-> <<>>]
  /\ lastSet = NoSet
  /\ nSets = 0
  /\ released = {}
  /\ warned = FALSE
  /\ uncaught = FALSE
  /\ swept = NoSweep
  /\ lastFetch = NoFetch

\* export const set: the store write, then the registry's fan-out
Set(cacheKey, value, maxAge) ==
  /\ nSets < MaxSets
  /\ nSets' = nSets + 1
  /\ store' = CacheSetStore(store, cacheKey, value, maxAge, now)
  /\ calls' = FireAll(calls, subs, LiveOn(subs, cacheKey), value)
  /\ fired' = [key |-> cacheKey, ids |-> LiveOn(subs, cacheKey)]
  /\ UNCHANGED <<now, subs, released, warned, uncaught, swept, lastFetch>>

\* a direct set() whose arguments and circumstances are recorded in lastSet
SetRecorded(cacheKey, value, maxAge) ==
  /\ Set(cacheKey, value, maxAge)
  /\ lastSet' = [op |-> "set", key |-> cacheKey, value |-> value, maxAge |-> maxAge,
                 at |-> now, pre |-> KeyState(store, cacheKey, now)]

\* a direct set() that ends what lastSet recorded about its key
SetUnrecorded(cacheKey, value, maxAge) ==
  /\ Set(cacheKey, value, maxAge)
  /\ lastSet' = KeepLastSet(lastSet, cacheKey)

\* export const get (the read sweeps the key when it has expired)
Get(cacheKey) ==
  /\ store' = StoreGet(store, cacheKey, now).st
  /\ UNCHANGED <<now, subs, calls, fired, lastSet, nSets, released, warned, uncaught,
                 swept, lastFetch>>

\* export const remove
Remove(cacheKey) ==
  /\ store' = StoreRemove(store, cacheKey)
  /\ lastSet' = KeepLastSet(lastSet, cacheKey)
  /\ UNCHANGED <<now, subs, calls, fired, nSets, released, warned, uncaught,
                 swept, lastFetch>>

\* export const clear: store.clearAll()
Clear ==
  /\ store' = EmptyStore
  /\ lastSet' = NoSet
  /\ UNCHANGED <<now, subs, calls, fired, nSets, released, warned, uncaught,
                 swept, lastFetch>>

\* export const removeExpiredKeys
RemoveExpiredKeys ==
  /\ store' = RemoveExpiredKeysStore(store, now)
  /\ swept' = [op |-> "sweep",
               removed |-> {k \in Keys : store.data[k] # Undef /\ store'.data[k] = Undef},
               kept |-> {k \in Keys : store'.data[k] # Undef}]
  /\ UNCHANGED <<now, subs, calls, fired, lastSet, nSets, released, warned, uncaught,
                 lastFetch>>

\* the callbacks of fetchFreshData: what the then-handler does with a
\* resolved value, and what the catch does with a rejection
ThenHandler(c, resp) ==
  LET defaultKey == defaultKeyOf(calls[c].keyName)
      key == ResolvedKey(resp, defaultKey)
      data == RestData(resp)
      wrote == ~RespFromCache(resp)
      ids == IF wrote THEN LiveOn(subs, key) ELSE <<>>
      cs1 == FireAll(calls, subs, ids, data)
  IN [store |-> IF wrote THEN CacheSetStore(store, key, data, calls[c].maxAge, now)
                ELSE store,
      calls |-> [cs1 EXCEPT ![c].onNext = Invoke(@, data, "fetch")],
      fired |-> IF wrote THEN [key |-> key, ids |-> ids] ELSE fired,
      lastSet |-> IF wrote THEN KeepLastSet(lastSet, key) ELSE lastSet,
      lastFetch |-> [op |-> "fetch", call |-> c, resp |-> resp, key |-> key],
      key |-> key]

\* fetchFreshData without its .catch: the rejection travels down the chain
CatchHandlerMissing(c, error) ==
  [calls |-> calls, key |-> "undefined", caught |-> FALSE]

CatchHandler(c, error) ==
  [calls |-> [calls EXCEPT ![c].onError = Append(@, error)],
   key |-> "undefined",   \* onError's return value, as the chain's key
   caught |-> TRUE]       \* the chain goes on fulfilled

\* const shouldUseCache = !noCache && cachedData, with the negation lost
ShouldUseCacheNegated(noCache, cachedData) == noCache /\ Truthy(cachedData)

\* const shouldUseCache = !noCache && cachedData
ShouldUseCache(noCache, cachedData) == ~noCache /\ Truthy(cachedData)

\* the timer's delay with the seconds taken for milliseconds
PollDelayMillis(pollInterval) == pollInterval

\* setInterval(..., pollInterval * SECOND)
PollDelay(pollInterval) == pollInterval * SECOND

\* the fields of the value the call resolves with, with the timer left out
ResolvedFieldsNoPoll(polling) == {"observableId"}

\* the fields of the value the call resolves with: { observableId } or
\* { observableId, poll }
ResolvedFields(polling) ==
  IF polling THEN {"observableId", "poll"} ELSE {"observableId"}

\* export const observeData: the synchronous part of the call
ObserveData(keyName, options) ==
  /\ Len(calls) < MaxCalls
  /\ LET c == Len(calls) + 1
         defaultKey == defaultKeyOf(keyName)
         maxAge == OptionMaxAge(options)
         \* keyName && store.get(defaultKey): a falsy keyName is itself the
         \* (falsy) cachedData and the store is not read
         g == IF keyName # "" THEN StoreGet(store, defaultKey, now)
              ELSE [st |-> store, val |-> Undef]
         cachedData == g.val
         shouldUseCache == ShouldUseCache(options.noCache, cachedData)
         polling == options.pollInterval # 0
         call == [keyName |-> keyName, maxAge |-> maxAge, noCache |-> options.noCache,
                  pollInterval |-> options.pollInterval,
                  pc |-> IF shouldUseCache THEN "resolved" ELSE "fetching",
                  hit |-> shouldUseCache,
                  pre |-> KeyState(store, defaultKey, now),
                  chainKey |-> "",
                  observableId |-> IF shouldUseCache THEN Len(subs) + 1 ELSE 0,
                  resolvedWith |-> IF shouldUseCache THEN ResolvedFields(polling) ELSE {},
                  startedAt |-> now,
                  pollActive |-> polling,
                  nextFire |-> IF polling THEN now + PollDelay(options.pollInterval) ELSE 0,
                  polls |-> 0,
                  pending |-> 0,
                  producerCalls |-> IF shouldUseCache THEN 0 ELSE 1,
                  onNext |-> IF shouldUseCache
                             THEN Invoke(NotInvoked, cachedData, "cache") ELSE NotInvoked,
                  onError |-> <<>>]
     IN /\ store' = g.st
        /\ calls' = Append(calls, call)
        /\ subs' = IF shouldUseCache THEN PluginObserve(subs, defaultKey, c) ELSE subs
  /\ UNCHANGED <<now, fired, lastSet, nSets, released, warned, uncaught,
                 swept, lastFetch>>

\* the initial producer call resolves: fetchFreshData's then-handler runs
ProducerResolve(c, resp) ==
  /\ calls[c].pc = "fetching"
  /\ LET r == ThenHandler(c, resp)
     IN /\ store' = r.store
        /\ calls' = [r.calls EXCEPT ![c].pc = "chained", ![c].chainKey = r.key]
        /\ fired' = r.fired
        /\ lastSet' = r.lastSet
        /\ lastFetch' = r.lastFetch
  /\ UNCHANGED <<now, subs, nSets, released, warned, uncaught, swept>>

\* the initial producer call rejects: .catch(onError)
ProducerReject(c, error) ==
  /\ calls[c].pc = "fetching"
  /\ LET r == CatchHandler(c, error)
     IN calls' = [r.calls EXCEPT ![c].pc = IF r.caught THEN "chained" ELSE "rejected",
                                 ![c].chainKey = r.key]
  /\ UNCHANGED <<now, store, subs, fired, lastSet, nSets, released, warned, uncaught,
                 swept, lastFetch>>

\* .then(key => ({ observableId: observeKey(key), poll })): the call resolves
Register(c) ==
  /\ calls[c].pc = "chained"
  /\ subs' = PluginObserve(subs, calls[c].chainKey, c)
  /\ calls' = [calls EXCEPT ![c].pc = "resolved", ![c].observableId = Len(subs) + 1,
                            ![c].resolvedWith = ResolvedFields(calls[c].pollInterval # 0)]
  /\ UNCHANGED <<now, store, fired, lastSet, nSets, released, warned, uncaught,
                 swept, lastFetch>>

\* setInterval(() => fetchFreshData(), pollInterval * SECOND): a tick
PollFire(c) ==
  /\ calls[c].pollActive
  /\ calls[c].nextFire <= now
  /\ calls' = [calls EXCEPT ![c].nextFire = @ + PollDelay(calls[c].pollInterval),
                            ![c].polls = @ + 1,
                            ![c].pending = @ + 1,
                            ![c].producerCalls = @ + 1]
  /\ UNCHANGED <<now, store, subs, fired, lastSet, nSets, released, warned, uncaught,
                 swept, lastFetch>>

\* a poll's producer call resolves
PollResolve(c, resp) ==
  /\ calls[c].pending > 0
  /\ LET r == ThenHandler(c, resp)
     IN /\ store' = r.store
        /\ calls' = [r.calls EXCEPT ![c].pending = @ - 1]
        /\ fired' = r.fired
        /\ lastSet' = r.lastSet
        /\ lastFetch' = r.lastFetch
  /\ UNCHANGED <<now, subs, nSets, released, warned, uncaught, swept>>

\* a poll's producer call rejects
PollReject(c, error) ==
  /\ calls[c].pending > 0
  /\ calls' = [CatchHandler(c, error).calls EXCEPT ![c].pending = @ - 1]
  /\ UNCHANGED <<now, store, subs, fired, lastSet, nSets, released, warned, uncaught,
                 swept, lastFetch>>

\* the caller clears the timer it was handed: clearInterval(poll)
ClearPoll(c) ==
  /\ "poll" \in calls[c].resolvedWith
  /\ calls[c].pollActive
  /\ calls' = [calls EXCEPT ![c].pollActive = FALSE]
  /\ UNCHANGED <<now, store, subs, fired, lastSet, nSets, released, warned, uncaught,
                 swept, lastFetch>>

\* unobserveData without the try/catch: the plugin's exception escapes
UnobserveDataNoCatch(sb, observeId) ==
  LET r == PluginUnobserve(sb, observeId)
  IN [subs |-> r.subs, warned |-> FALSE, uncaught |-> r.threw]

\* unobserveData that never reaches store.unobserve
UnobserveDataNoCall(sb, observeId) ==
  [subs |-> sb, warned |-> FALSE, uncaught |-> FALSE]

\* export const unobserveData: try { store.unobserve(id) } catch { warn }
UnobserveDataResult(sb, observeId) ==
  LET r == PluginUnobserve(sb, observeId)
  IN IF r.threw THEN [subs |-> sb, warned |-> TRUE, uncaught |-> FALSE]
     ELSE [subs |-> r.subs, warned |-> FALSE, uncaught |-> FALSE]

UnobserveData(observeId) ==
  /\ subs' = UnobserveDataResult(subs, observeId).subs
  /\ warned' = (warned \/ UnobserveDataResult(subs, observeId).warned)
  /\ uncaught' = (uncaught \/ UnobserveDataResult(subs, observeId).uncaught)
  /\ released' = released \cup ({observeId} \cap DOMAIN subs)
  /\ UNCHANGED <<now, store, calls, fired, lastSet, nSets, swept, lastFetch>>

\* the clock; a due timer fires before time moves on
Advance ==
  /\ now < MaxTicks * SECOND
  /\ \A c \in DOMAIN calls : calls[c].pollActive => calls[c].nextFire > now
  /\ now' = now + SECOND
  /\ UNCHANGED <<store, subs, calls, fired, lastSet, nSets, released, warned, uncaught,
                 swept, lastFetch>>

Next ==
  \/ \E k \in Keys, v \in Payloads, m \in MaxAges : SetRecorded(k, v, m)
  \/ \E k \in Keys : Get(k)
  \/ \E k \in Keys : Remove(k)
  \/ Clear
  \/ RemoveExpiredKeys
  \/ \E kn \in KeyNames, o \in OptionSets : ObserveData(kn, o)
  \/ \E c \in DOMAIN calls, r \in Responses : ProducerResolve(c, r)
  \/ \E c \in DOMAIN calls, e \in Errors : ProducerReject(c, e)
  \/ \E c \in DOMAIN calls : Register(c)
  \/ \E c \in DOMAIN calls : PollFire(c)
  \/ \E c \in DOMAIN calls, r \in Responses : PollResolve(c, r)
  \/ \E c \in DOMAIN calls, e \in Errors : PollReject(c, e)
  \/ \E c \in DOMAIN calls : ClearPoll(c)
  \/ \E id \in 1..(Len(subs) + 1) : UnobserveData(id)
  \/ Advance

Spec == Init /\ [][Next]_vars

\* the store on its own: the direct operations and the clock
NextStore ==
  \/ \E k \in Keys, v \in Payloads, m \in MaxAges : SetRecorded(k, v, m)
  \/ \E k \in Keys : Get(k)
  \/ \E k \in Keys : Remove(k)
  \/ Clear
  \/ RemoveExpiredKeys
  \/ Advance

SpecStore == Init /\ [][NextStore]_vars

\* the orchestrator without polling: calls, producer outcomes, teardown,
\* and direct writes racing with them
\* the operations begun so far: observeData calls, direct sets, clock ticks
Started == Len(calls) + nSets + now \div SECOND

NextFetch ==
  \/ \E kn \in KeyNames, o \in OptionSets :
       Started < MaxFetchOps /\ o.pollInterval = 0 /\ ObserveData(kn, o)
  \/ \E c \in DOMAIN calls, r \in Payloads : ProducerResolve(c, r)
  \/ \E c \in DOMAIN calls, e \in Errors : ProducerReject(c, e)
  \/ \E c \in DOMAIN calls : Register(c)
  \/ \E id \in 1..(Len(subs) + 1) : UnobserveData(id)
  \/ \E kn \in KeyNames, v \in Payloads, m \in {Undef, Null} :
       Started < MaxFetchOps /\ SetUnrecorded(defaultKeyOf(kn), v, m)
  \/ Started < MaxFetchOps /\ Advance

SpecFetch == Init /\ [][NextFetch]_vars

\* polling invocations, their timers and teardown by a caller that releases
\* each handle once, and direct writes
NextPoll ==
  \/ \E kn \in KeyNames, o \in OptionSets :
       Started < MaxPollOps /\ Len(calls) < MaxPollCalls
         /\ o.pollInterval # 0 /\ ObserveData(kn, o)
  \/ \E c \in DOMAIN calls, r \in Payloads : ProducerResolve(c, r)
  \/ \E c \in DOMAIN calls, e \in Errors : ProducerReject(c, e)
  \/ \E c \in DOMAIN calls : Register(c)
  \/ \E c \in DOMAIN calls : PollFire(c)
  \/ \E c \in DOMAIN calls, r \in Payloads : PollResolve(c, r)
  \/ \E c \in DOMAIN calls, e \in Errors : PollReject(c, e)
  \/ \E c \in DOMAIN calls : ClearPoll(c)
  \/ \E id \in DOMAIN subs : subs[id].live /\ UnobserveData(id)
  \/ \E kn \in KeyNames, v \in Payloads, m \in {Undef, Null} :
       Started < MaxPollOps /\ SetUnrecorded(defaultKeyOf(kn), v, m)
  \/ Started < MaxPollOps /\ Advance

SpecPoll == Init /\ [][NextPoll]_vars

\* producers that do their own caching: results that may carry __cacheKey and
\* __fromCache, and direct writes to any key
NextCustom ==
  \/ \E kn \in KeyNames, o \in OptionSets :
       Started < MaxCustomOps /\ o.pollInterval = 0 /\ ObserveData(kn, o)
  \/ \E c \in DOMAIN calls, r \in Responses : ProducerResolve(c, r)
  \/ \E c \in DOMAIN calls : Register(c)
  \/ \E k \in Keys, v \in Payloads :
       Started < MaxCustomOps /\ SetUnrecorded(k, v, Undef)

SpecCustom == Init /\ [][NextCustom]_vars

\* ===================================================================== claims
\* what get(key) is expected to return for a stored value
Annotated(key, value) == [__cacheKey |-> key, __fromCache |-> TRUE] @@ value

\* C1: after set(key, value, maxAge) with maxAge > 0, from any state of the
\* key, a get(key) less than maxAge seconds later returns value extended with
\* __cacheKey = key and __fromCache = true.
C1_GetAfterSet ==
  (lastSet.op = "set" /\ lastSet.maxAge.t = "number"
     /\ now < lastSet.at + lastSet.maxAge.n * SECOND)
  => GetSyncResult(store, lastSet.key, now) = Annotated(lastSet.key, lastSet.value)

\* the seconds a maxAge argument stands for: unset and null take the default
EffectiveAge(maxAge) == IF Truthy(maxAge) THEN maxAge.n ELSE defaultConfigMaxAge

\* C3: a set() on a key holding a live entry with an expiration leaves the
\* expiration at the maximum of the previous one and now + maxAge seconds, so
\* no write to a live key moves its expiration earlier.
C3_ExtendOnly ==
  [][\A k \in Keys :
       KeyState(store, k, now) = "finite" =>
         /\ \A v \in Payloads, m \in MaxAges :
              Set(k, v, m) =>
                store'.exp[k] =
                  Num(IF store.exp[k].n >= now + EffectiveAge(m) * SECOND
                      THEN store.exp[k].n ELSE now + EffectiveAge(m) * SECOND)
         /\ (store'.data[k] # Undef /\ store'.data[k] # store.data[k]) =>
              (store'.exp[k].t = "number" /\ store'.exp[k].n >= store.exp[k].n)]_vars

\* C3 witness: a 2-second entry rewritten at once with maxAge 1 still expires
\* at the 2-second mark
C3_Witness ==
  /\ lastSet.op = "set" /\ lastSet.pre = "finite" /\ lastSet.maxAge = Num(1)
  /\ now = lastSet.at
  /\ store.exp[lastSet.key] = Num(lastSet.at + 2 * SECOND)

\* C4: after set(key, value, null), from any state of the key, get(key) is
\* non-absent at every later time while nothing removes or rewrites the key.
C4_NeverExpires ==
  (lastSet.op = "set" /\ lastSet.maxAge = Null)
  => GetSyncResult(store, lastSet.key, now) # Undef

\* ------------------------------------------------------- orchestrator claims
Owned(sb, c) == {id \in DOMAIN sb : sb[id].owner = c}
LiveIdsOn(sb, key) == {id \in DOMAIN sb : sb[id].live /\ sb[id].key = key}
IsLiveState(s) == s \in {"finite", "forever"}

\* C2: when the producer rejects with e, onError is invoked with e, the call
\* registers no observation on any key, and the store holds no entry for the
\* key.
C2_RejectRegistersNothing ==
  \A c \in DOMAIN calls :
    Len(calls[c].onError) > 0 =>
      /\ calls[c].onError \in {<<e>> : e \in Errors}
      /\ Owned(subs, c) = {}
      /\ (Len(calls) = 1 /\ nSets = 0) => store = EmptyStore

\* C5: a call that finds no live entry under its default key invokes the
\* producer once; when the producer resolves with a plain payload, the payload
\* is stored under the default key, onNext has been called with it, and a get
\* of the key then returns the payload with __cacheKey and __fromCache = true.
C5_CacheMiss ==
  [][\A c \in DOMAIN calls, r \in Payloads :
       (ProducerResolve(c, r) /\ ~calls[c].noCache /\ ~IsLiveState(calls[c].pre)) =>
         LET dk == defaultKeyOf(calls[c].keyName)
             log == calls'[c].onNext
         IN /\ calls[c].producerCalls = 1
            /\ store'.data[dk] = r
            /\ log.last = r /\ log.lastVia = "fetch"
            /\ GetSyncResult(store', dk, now') = Annotated(dk, r)]_vars

\* the cache-hit path of one observeData step, for the key names in kns
CacheHitStep(kns) ==
  /\ \A kn \in kns, o \in OptionSets :
       (ObserveData(kn, o) /\ ~o.noCache /\ o.pollInterval = 0
          /\ IsLiveState(KeyState(store, defaultKeyOf(kn), now))) =>
         LET c == Len(calls) + 1
             dk == defaultKeyOf(kn)
         IN /\ calls'[c].onNext = Invoke(NotInvoked, store.data[dk], "cache")
            /\ calls'[c].producerCalls = 0
            /\ subs' = Append(subs, [key |-> dk, owner |-> c, live |-> TRUE])
            /\ calls'[c].pc = "resolved"
            /\ calls'[c].observableId = Len(subs')
  /\ \A c \in DOMAIN calls :
       (calls[c].hit /\ calls[c].pollInterval = 0) => calls'[c].producerCalls = 0

\* C6 as stated: whenever a live entry exists under the default key and the
\* call has neither noCache nor pollInterval, onNext gets the cached value
\* during the call, the producer is never invoked, an observation on the
\* default key is registered and the call resolves with its handle.
C6_CacheHitAnyKeyName == [][CacheHitStep(KeyNames)]_vars

\* C6 amended: the same, for a truthy keyName (with a falsy keyName the
\* cache is not consulted and the producer runs).
C6_CacheHit == [][CacheHitStep(KeyNames \ {""})]_vars

\* C6 witness: a call served from the cache, resolved with its handle
C6_Witness ==
  \E c \in DOMAIN calls :
    /\ calls[c].hit /\ calls[c].pc = "resolved" /\ calls[c].producerCalls = 0
    /\ IsLive(subs, calls[c].observableId)
    /\ subs[calls[c].observableId].key = defaultKeyOf(calls[c].keyName)

\* what a write of value v to key k must leave in call x's onNext log
AfterWrite(x, k, v) ==
  IF \E id \in LiveIdsOn(subs, k) : subs[id].owner = x
  THEN Invoke(calls[x].onNext, v, "observe")
  ELSE calls[x].onNext

FiredInOrder(k) ==
  /\ fired'.key = k
  /\ {fired'.ids[i] : i \in DOMAIN fired'.ids} = LiveIdsOn(subs, k)
  /\ \A i, j \in DOMAIN fired'.ids : i < j => fired'.ids[i] < fired'.ids[j]

\* C7: every write to key K, by a direct set or by the orchestrator storing
\* a producer result, invokes within the same step the callback of every
\* registration live on K with the new value, in registration order, and no
\* callback registered on another key.
C7_WriteFansOut ==
  [][/\ \A k \in Keys, v \in Payloads, m \in MaxAges :
          Set(k, v, m) =>
            /\ FiredInOrder(k)
            /\ \A x \in DOMAIN calls : calls'[x].onNext = AfterWrite(x, k, v)
     /\ \A c \in DOMAIN calls, r \in Payloads :
          ProducerResolve(c, r) =>
            LET k == defaultKeyOf(calls[c].keyName)
            IN /\ FiredInOrder(k)
               /\ \A x \in DOMAIN calls :
                    calls'[x].onNext =
                      IF x = c THEN Invoke(AfterWrite(x, k, r), r, "fetch")
                      ELSE AfterWrite(x, k, r)]_vars

\* C7 witness: one write has just invoked two registrations on its key, both
\* owners' logs ending with the written value
C7_Witness ==
  /\ Len(fired.ids) = 2
  /\ \A i \in DOMAIN fired.ids :
       LET log == calls[subs[fired.ids[i]].owner].onNext
       IN log.lastVia = "observe" /\ log.last = store.data[fired.key]

\* C8: with pollInterval p > 0 the producer is invoked once more at every
\* multiple of p seconds after the call, on the fetch path whatever the cache
\* holds and whether the call was a hit or a miss, and onNext fires for each
\* value a producer call resolves with, until the timer is cleared.
C8_PollSchedule ==
  \A c \in DOMAIN calls :
    LET call == calls[c]
        period == call.pollInterval * SECOND
    IN call.pollInterval > 0 =>
         /\ call.pollActive =>
              /\ call.nextFire = call.startedAt + (call.polls + 1) * period
              /\ now <= call.nextFire
              /\ now < call.nextFire => call.polls = (now - call.startedAt) \div period
         /\ call.producerCalls = call.polls + (IF call.hit THEN 0 ELSE 1)
         /\ call.onNext.fetch + Len(call.onError) + call.pending
              + (IF call.pc = "fetching" THEN 1 ELSE 0) = call.producerCalls

\* C8 witness: a call served from the cache has polled three times, after 1,
\* 2 and 3 seconds, and onNext fired for each of the three results
C8_Witness ==
  \E c \in DOMAIN calls :
    /\ calls[c].hit /\ calls[c].pollActive
    /\ calls[c].polls = 3 /\ now = calls[c].startedAt + 3 * SECOND
    /\ calls[c].onNext.fetch = 3

\* C9: unobserveData never throws; on a handle already unobserved or never
\* issued it changes no registration, no store entry and no invocation.
C9_UnobserveNeverThrows ==
  [][/\ uncaught' = FALSE
     /\ \A id \in 1..(Len(subs) + 1) :
          (UnobserveData(id) /\ ~IsLive(subs, id)) =>
            (subs' = subs /\ store' = store /\ calls' = calls)]_vars

\* C9 witness: a handle was released, unobserveData was called on a dead or
\* unknown handle (it warned), and another registration is still live
C9_Witness ==
  /\ warned /\ ~uncaught
  /\ released # {}
  /\ \E id \in DOMAIN subs : subs[id].live

\* C10: once unobserveData was called on the handle an observeData call
\* resolved with, no write delivers to that call's onNext through the
\* observation any more, and unobserveData leaves the producer calls in
\* flight as they are.
C10_UnobserveStopsDelivery ==
  [][/\ \A c \in DOMAIN calls :
          (calls[c].pc = "resolved" /\ calls[c].observableId \in released) =>
            calls'[c].onNext.observe = calls[c].onNext.observe
     /\ \A id \in 1..(Len(subs) + 1) : UnobserveData(id) => calls' = calls]_vars

\* C10 witness: the observation delivered a write, was released, a later
\* write to its key invoked nobody, and a poll's producer call is in flight
C10_Witness ==
  \E c \in DOMAIN calls :
    /\ calls[c].pc = "resolved" /\ calls[c].observableId \in released
    /\ calls[c].onNext.observe >= 1
    /\ fired = [key |-> subs[calls[c].observableId].key, ids |-> <<>>]
    /\ calls[c].pending > 0

\* ------------------------------------------------------------ later claims
\* an entry whose expiration is a timestamp that has been reached
Lapsed(st, k, t) ==
  st.data[k] # Undef /\ st.exp[k].t = "number" /\ st.exp[k].n <= t

\* C11: removeExpiredKeys() removes exactly the entries whose expiration is
\* set and <= the time of the call, and leaves every other entry (later
\* expiration, or none) with its value and expiration unchanged.
C11_SweepExactlyExpired ==
  [][RemoveExpiredKeys =>
       \A k \in Keys :
         IF Lapsed(store, k, now)
         THEN store'.data[k] = Undef /\ store'.exp[k] = Undef
         ELSE store'.data[k] = store.data[k] /\ store'.exp[k] = store.exp[k]]_vars

\* C11 witness: a sweep removed an entry and kept one that expires later
C11_Witness ==
  /\ swept.op = "sweep" /\ swept.removed # {}
  /\ \E k \in swept.kept :
       store.data[k] # Undef /\ store.exp[k].t = "number" /\ store.exp[k].n > now

\* the fetch path as an observeData step leaves call c: the producer invoked
\* once, onNext not invoked, the call pending
TookFetchPath(c) ==
  /\ ~calls'[c].hit /\ calls'[c].pc = "fetching"
  /\ calls'[c].producerCalls = 1
  /\ calls'[c].onNext = NotInvoked

\* C12: an entry whose expiration has passed is absent without any sweep:
\* get(key) returns the absent result, and an observeData call on that key
\* takes the fetch path and invokes the producer.
C12_ExpiredIsAbsent ==
  [][/\ \A k \in Keys : Lapsed(store, k, now) => GetSyncResult(store, k, now) = Undef
     /\ \A kn \in KeyNames, o \in OptionSets :
          (ObserveData(kn, o) /\ Lapsed(store, defaultKeyOf(kn), now)) =>
            TookFetchPath(Len(calls) + 1)]_vars

\* C12 witness: a call that may use the cache found its key expired but not
\* swept, and went to the producer
C12_Witness ==
  \E c \in DOMAIN calls :
    /\ calls[c].pre = "expired" /\ calls[c].keyName # "" /\ ~calls[c].noCache
    /\ ~calls[c].hit /\ calls[c].producerCalls = 1

\* C13: with noCache true, or a falsy keyName, the call takes the fetch path
\* even when a live entry exists under the default key, and the lookup is
\* skipped: the store is left as it was.
C13_NoCacheSkipsLookup ==
  [][\A kn \in KeyNames, o \in OptionSets :
       (ObserveData(kn, o) /\ (o.noCache \/ kn = "")) =>
         (TookFetchPath(Len(calls) + 1) /\ store' = store)]_vars

\* C13 without the clause on the store: the fetch path alone
C13_NoCacheFetches ==
  [][\A kn \in KeyNames, o \in OptionSets :
       (ObserveData(kn, o) /\ (o.noCache \/ kn = "")) =>
         TookFetchPath(Len(calls) + 1)]_vars

\* the payload of a producer result: the result without its bookkeeping fields
PayloadOf(resp) == [t |-> resp.t, results |-> resp.results]

\* the key a producer result names: its __cacheKey, else the default key
NamedKey(resp, keyName) ==
  IF "__cacheKey" \in DOMAIN resp THEN resp.__cacheKey ELSE defaultKeyOf(keyName)

\* C14: a producer result with __fromCache truthy causes no store write (every
\* entry and expiration unchanged), onNext still gets the payload without
\* __cacheKey and __fromCache, and the observation is registered on the
\* result's __cacheKey when it has one and on "withData__" + keyName
\* otherwise; with __fromCache falsy the payload is written under that key.
C14_FromCacheSkipsWrite ==
  [][/\ \A c \in DOMAIN calls, r \in Responses :
          ProducerResolve(c, r) =>
            LET key == NamedKey(r, calls[c].keyName)
                marked == "__fromCache" \in DOMAIN r /\ r.__fromCache
            IN /\ calls'[c].onNext.last = PayloadOf(r)
               /\ calls'[c].onNext.lastVia = "fetch"
               /\ calls'[c].onNext.fetch = calls[c].onNext.fetch + 1
               /\ calls'[c].chainKey = key
               /\ marked => (store' = store /\ fired' = fired
                               /\ \A x \in DOMAIN calls \ {c} : calls'[x] = calls[x])
               /\ ~marked =>
                    /\ store'.data[key] = PayloadOf(r)
                    /\ \A k \in Keys \ {key} :
                         store'.data[k] = store.data[k] /\ store'.exp[k] = store.exp[k]
     /\ \A c \in DOMAIN calls :
          Register(c) =>
            subs' = Append(subs, [key |-> calls[c].chainKey, owner |-> c, live |-> TRUE])]_vars

\* C14 witness: a producer answered from its own cache under its own key;
\* the call resolved observing that key, onNext got the bare payload, and the
\* store was never written
C14_Witness ==
  /\ lastFetch.op = "fetch"
  /\ "__fromCache" \in DOMAIN lastFetch.resp /\ "__cacheKey" \in DOMAIN lastFetch.resp
  /\ LET call == calls[lastFetch.call]
     IN /\ call.pc = "resolved"
        /\ subs[call.observableId].key = CustomKey
        /\ call.onNext.last = PayloadOf(lastFetch.resp)
  /\ store = EmptyStore

C16_ResolvesWithBothHandles ==
  \A c \in DOMAIN calls :
    /\ (calls[c].pollInterval # 0 /\ calls[c].pc = "resolved") =>
         calls[c].resolvedWith = {"observableId", "poll"}
    /\ (calls[c].pollActive /\ calls[c].pc = "resolved") => ENABLED ClearPoll(c)
    /\ calls[c].pollActive => calls[c].pollInterval # 0

\* C16 witness: a call on the fetch path resolved with both handles, its
\* timer ticked, and the caller then cleared it
C16_Witness ==
  \E c \in DOMAIN calls :
    /\ ~calls[c].hit /\ calls[c].pollInterval # 0 /\ calls[c].pc = "resolved"
    /\ calls[c].resolvedWith = {"observableId", "poll"}
    /\ calls[c].polls >= 1 /\ ~calls[c].pollActive

\* call c2 went to its producer for the same key as c, and that producer
\* has resolved
ResolvedMissOn(c2, c) ==
  /\ calls[c2].keyName = calls[c].keyName
  /\ ~calls[c2].hit /\ calls[c2].pc # "fetching" /\ calls[c2].onError = <<>>

\* C17: when two calls on one key both miss the cache and both invoke their
\* producers, the value stored under the key once both have resolved is the
\* payload of the producer that resolved last, whichever call came first.
C17_LastResolverWins ==
  [][\A c \in DOMAIN calls, r \in Payloads :
       (ProducerResolve(c, r) /\ ~calls[c].hit
          /\ \E c2 \in DOMAIN calls \ {c} : ResolvedMissOn(c2, c)) =>
         LET dk == defaultKeyOf(calls[c].keyName)
         IN /\ store'.data[dk] = r
            /\ nSets = 0 => GetSyncResult(store', dk, now') = Annotated(dk, r)]_vars

\* C17 witness: the second caller's producer resolved first, the first
\* caller's last and with another payload, which is what the store holds
C17_Witness ==
  /\ Len(calls) = 2 /\ lastFetch.op = "fetch" /\ lastFetch.call = 1
  /\ ResolvedMissOn(2, 1) /\ ResolvedMissOn(1, 2)
  /\ calls[2].onNext.lastVia = "fetch" /\ calls[2].onNext.last # lastFetch.resp
  /\ store.data[defaultKeyOf(calls[1].keyName)] = lastFetch.resp

\* every producer has settled and every call has resolved
Quiescent ==
  \A c \in DOMAIN calls : calls[c].pc = "resolved" /\ calls[c].pending = 0

\* C18: once every producer has resolved and every call has resolved, the
\* last payload delivered to each caller holding a live observation on a key
\* is the value stored under that key.
C18_SubscribersConverge ==
  Quiescent =>
    \A c \in DOMAIN calls :
      LET id == calls[c].observableId
      IN (IsLive(subs, id) /\ subs[id].key \in Keys
            /\ store.data[subs[id].key] # Undef) =>
           calls[c].onNext.last = store.data[subs[id].key]

\* one more invocation of call c's onNext, with payload r
DeliveredOnce(c, r) ==
  /\ calls'[c].onNext.count = calls[c].onNext.count + 1
  /\ calls'[c].onNext.last = r

\* C19: each producer call made for an invocation (the initial fetch or a
\* poll tick) that resolves with a payload invokes that invocation's onNext
\* exactly once with it; the invocation's own observation does not deliver
\* the same write again.
C19_DeliveredExactlyOnce ==
  [][\A c \in DOMAIN calls, r \in Payloads :
       /\ ProducerResolve(c, r) => DeliveredOnce(c, r)
       /\ PollResolve(c, r) => DeliveredOnce(c, r)]_vars

\* C19 for the initial fetch alone, whose observation is not yet registered
C19_InitialFetchOnce ==
  [][\A c \in DOMAIN calls, r \in Payloads :
       ProducerResolve(c, r) => DeliveredOnce(c, r)]_vars

\* the caller has released the handle the call resolved with and cleared
\* its timer
TornDown(c) ==
  /\ calls[c].pc = "resolved" /\ calls[c].observableId \in released
  /\ calls[c].pollInterval # 0 /\ ~calls[c].pollActive

\* nothing happens on behalf of call c in this step: no callback of it is
\* invoked and no producer result of it is stored
Quiet(c) ==
  /\ calls'[c].onNext = calls[c].onNext
  /\ calls'[c].onError = calls[c].onError
  /\ \A r \in Payloads : ~PollResolve(c, r)

\* C20: once unobserveData was called on the returned observableId and the
\* returned timer was cleared, the invocation's onNext and onError are never
\* invoked again and the store is never written on its behalf.
C20_TeardownQuiescence ==
  [][\A c \in DOMAIN calls : TornDown(c) => Quiet(c)]_vars

\* C20 when no producer call of the invocation is in flight after teardown
C20_QuiescentWhenIdle ==
  [][\A c \in DOMAIN calls : (TornDown(c) /\ calls[c].pending = 0) => Quiet(c)]_vars

====
